---- MODULE Spec2Model ----
(***************************************************************************)
(* Model of util/cp_tutorial_example.cxx: the main function of the CP      *)
(* tools tutorial executable.  main is one linear control flow; every      *)
(* call into the xAOD / ROOT framework is one step, and the value the      *)
(* framework returns (success or failure, a container, a selection         *)
(* decision) is chosen nondeterministically.  The CHECK macro is part of   *)
(* the step of the call it wraps.                                          *)
(***************************************************************************)
EXTENDS Integers, Sequences, FiniteSets, TLC

\* ---- bounds of the model ----
MaxArgc == 2
MaxEvents == 21
MaxMuons == 2

\* ---- program constants ----
\* std::min(nEntries, 20ll)
EventCap == 20

VARIABLES
  pc,                 \* position in main
  argc,               \* number of command-line words (program name included)
  nEvents,            \* event.getEntries(): events in the input file
  status,             \* value returned by main, -1 while main runs
  diag,               \* expression named by the CHECK failure diagnostic
  reported,           \* the most recent framework call that reported failure
  calledAfterFailure, \* a framework call was made after a reported failure
  usagePrinted,       \* the two usage Error lines were printed
  finishedPrinted,    \* "Application finished" was printed
  progress,           \* counters printed by the per-event progress lines
  comparison,         \* old/new pt lines printed for the current event
  xaodInit,           \* xAOD::Init was called
  fileOpened,         \* TFile::Open was called
  eventBound,         \* event.readFrom was called
  initCalls,          \* tools whose initialize() was called, in order
  nEntries,           \* local nEntries
  entry,              \* loop variable entry
  processed,          \* entries handed to event.getEntry, in order
  retrieveCalls,      \* number of event.retrieve calls
  copies,             \* number of shallowCopyContainer calls
  cont,               \* pt of the elements of the original and of the copy
  j,                  \* position of the range-for over the muons (1-based)
  toolLog,            \* tool calls of the current event: <<tool, index, result>>
  recordCalls,        \* number of store.record calls
  store,              \* keys held by the transient store
  held,               \* who holds the two objects of muonCopyPair
  clearCalls          \* number of store.clear calls

outVars == <<usagePrinted, finishedPrinted, progress, comparison>>
setupVars == <<xaodInit, fileOpened, eventBound, initCalls>>
loopVars == <<nEntries, entry, processed, retrieveCalls>>
muonVars == <<cont, j, toolLog, copies>>
storeVars == <<store, held, recordCalls, clearCalls>>
inputVars == <<argc, nEvents>>
ctlVars == <<pc, status, diag, reported, calledAfterFailure>>
vars == <<ctlVars, inputVars, outVars, setupVars, loopVars, muonVars, storeVars>>

Min(a, b) == IF a < b THEN a ELSE b

\* CP::CorrectionCode values
CorrectionCodes == {"Ok", "OutOfValidityRange", "Error"}

\* pt (MeV) of muon i of an input event
PtOf(i) == 20000 + 1500 * i

\* The simulated calibration: an Ok correction adds a fixed offset to pt,
\* any other code leaves the muon as it was.
Calibrated(pt, code) == IF code = "Ok" THEN pt + 5000 ELSE pt

\* pt()*0.001 printed with %f: six decimals, kept here in units of 1e-6 GeV
Printed(pt) == pt * 1000

NoCopy == [orig |-> <<>>, copy |-> <<>>]

\* The CHECK macro: on failure print the diagnostic naming the expression
\* and return 1 from main, otherwise go on.
CHECKNoReturn(ok, name, next) ==
  /\ pc' = next
  /\ diag' = IF ok THEN diag ELSE name
  /\ UNCHANGED status

CHECK(ok, name, next) ==
  IF ok
  THEN pc' = next /\ UNCHANGED <<status, diag>>
  ELSE pc' = "done" /\ status' = 1 /\ diag' = name

\* Bookkeeping of a framework call and of what it reported.
FwCall(name, ok) ==
  /\ reported' = IF ok THEN reported ELSE name
  /\ calledAfterFailure' = (calledAfterFailure \/ reported # "none")

\* argc < 2 is the usage error
ArgsMissingBug(n) == n < 1

ArgsMissing(n) == n < 2

\* nEntries = std::min(nEntries, 20ll)
LoopBoundBug(n) == n

LoopBound(n) == Min(n, EventCap)

\* the muons the range-for iterates over: myMuons = muonCopyPair.first
LoopContainerBug == "orig"

LoopContainer == "copy"

\* if(muonSelectTool.accept(*muon)) { ... getEfficiencyScaleFactor ... }
AfterAcceptBug(acc) == "eff"

AfterAccept(acc) == IF acc THEN "eff" ELSE "nextMuon"

\* after the second record comes store.clear()
AfterRecord2Bug == "loopNext"

AfterRecord2 == "clear"

\* xAOD::TStore::clear drops every entry
StoreClearBug(s) == s

StoreClear(s) == {}

Init ==
  /\ pc = "start"
  /\ argc \in 1..MaxArgc
  /\ nEvents \in 0..MaxEvents
  /\ status = -1
  /\ diag = "none"
  /\ reported = "none"
  /\ calledAfterFailure = FALSE
  /\ usagePrinted = FALSE
  /\ finishedPrinted = FALSE
  /\ progress = <<>>
  /\ comparison = <<>>
  /\ xaodInit = FALSE
  /\ fileOpened = FALSE
  /\ eventBound = FALSE
  /\ initCalls = <<>>
  /\ nEntries = 0
  /\ entry = 0
  /\ processed = <<>>
  /\ retrieveCalls = 0
  /\ copies = 0
  /\ cont = NoCopy
  /\ j = 1
  /\ toolLog = <<>>
  /\ recordCalls = 0
  /\ store = {}
  /\ held = [first |-> "none", second |-> "none"]
  /\ clearCalls = 0

\* if(argc < 2) { Error(usage); return 1; }
CheckArgs ==
  /\ pc = "start"
  /\ IF ArgsMissing(argc)
     THEN /\ usagePrinted' = TRUE
          /\ status' = 1
          /\ pc' = "done"
     ELSE /\ pc' = "init"
          /\ UNCHANGED <<usagePrinted, status>>
  /\ UNCHANGED <<diag, reported, calledAfterFailure, finishedPrinted, progress,
                 comparison, inputVars, setupVars, loopVars, muonVars, storeVars>>

\* CHECK( xAOD::Init(APP_NAME) ); StatusCode::enableFailure();
XAODInit ==
  /\ pc = "init"
  /\ \E ok \in BOOLEAN :
       /\ FwCall("xAOD::Init", ok)
       /\ CHECK(ok, "xAOD::Init", "open")
  /\ xaodInit' = TRUE
  /\ UNCHANGED <<fileOpened, eventBound, initCalls>>
  /\ UNCHANGED <<inputVars, outVars, loopVars, muonVars, storeVars>>

\* file(TFile::Open(fileName)); CHECK( file.get() );
OpenFile ==
  /\ pc = "open"
  /\ \E ok \in BOOLEAN :
       /\ FwCall("TFile::Open", ok)
       /\ CHECK(ok, "TFile::Open", "readFrom")
  /\ fileOpened' = TRUE
  /\ UNCHANGED <<xaodInit, eventBound, initCalls>>
  /\ UNCHANGED <<inputVars, outVars, loopVars, muonVars, storeVars>>

\* CHECK( event.readFrom(file.get()) ); Info(number of events)
ReadFrom ==
  /\ pc = "readFrom"
  /\ \E ok \in BOOLEAN :
       /\ FwCall("readFrom", ok)
       /\ CHECK(ok, "readFrom", "calibInit")
  /\ eventBound' = TRUE
  /\ UNCHANGED <<xaodInit, fileOpened, initCalls>>
  /\ UNCHANGED <<inputVars, outVars, loopVars, muonVars, storeVars>>

\* CHECK( tool.setProperty(...) )
SetProperty(at, name, next) ==
  /\ pc = at
  /\ \E ok \in BOOLEAN :
       /\ FwCall(name, ok)
       /\ CHECK(ok, name, next)
  /\ UNCHANGED <<inputVars, outVars, setupVars, loopVars, muonVars, storeVars>>

\* tool.initialize() with its result dropped
InitializeUnchecked(at, tool, name, next) ==
  /\ pc = at
  /\ \E ok \in BOOLEAN : FwCall(name, ok)
  /\ pc' = next
  /\ initCalls' = Append(initCalls, tool)
  /\ UNCHANGED <<status, diag, xaodInit, fileOpened, eventBound>>
  /\ UNCHANGED <<inputVars, outVars, loopVars, muonVars, storeVars>>

\* CHECK( tool.initialize() )
Initialize(at, tool, name, next) ==
  /\ pc = at
  /\ \E ok \in BOOLEAN :
       /\ FwCall(name, ok)
       /\ CHECK(ok, name, next)
  /\ initCalls' = Append(initCalls, tool)
  /\ UNCHANGED <<xaodInit, fileOpened, eventBound>>
  /\ UNCHANGED <<inputVars, outVars, loopVars, muonVars, storeVars>>

CalibInit == Initialize("calibInit", "calib", "calib.initialize", "selectProp")
SelectSetProperty == SetProperty("selectProp", "select.setProperty", "selectInit")
SelectInit == Initialize("selectInit", "select", "select.initialize", "effProp")
EffSetProperty == SetProperty("effProp", "eff.setProperty", "effInit")
EffInit == Initialize("effInit", "eff", "eff.initialize", "loopInit")

\* Long64_t nEntries = event.getEntries(); nEntries = std::min(nEntries, 20ll);
\* entry = 0
LoopInit ==
  /\ pc = "loopInit"
  /\ FwCall("getEntries", TRUE)
  /\ nEntries' = LoopBound(nEvents)
  /\ entry' = 0
  /\ pc' = "loopTest"
  /\ UNCHANGED <<status, diag, processed, retrieveCalls>>
  /\ UNCHANGED <<inputVars, outVars, setupVars, muonVars, storeVars>>

\* entry < nEntries: enter the loop body
LoopTest ==
  /\ pc = "loopTest"
  /\ entry < nEntries
  /\ pc' = "getEntry"
  /\ UNCHANGED <<status, diag, reported, calledAfterFailure>>
  /\ UNCHANGED <<inputVars, outVars, setupVars, loopVars, muonVars, storeVars>>

\* the loop is over: Info("Application finished"); return EXIT_SUCCESS;
Finish ==
  /\ pc = "loopTest"
  /\ ~(entry < nEntries)
  /\ finishedPrinted' = TRUE
  /\ status' = 0
  /\ pc' = "done"
  /\ UNCHANGED <<diag, reported, calledAfterFailure, usagePrinted, progress, comparison>>
  /\ UNCHANGED <<inputVars, setupVars, loopVars, muonVars, storeVars>>

\* event.getEntry(entry); the returned value is dropped
GetEntry ==
  /\ pc = "getEntry"
  /\ \E ok \in BOOLEAN : FwCall("getEntry", ok)
  /\ processed' = Append(processed, entry)
  /\ pc' = "retrieveInfo"
  /\ UNCHANGED <<status, diag, nEntries, entry, retrieveCalls>>
  /\ UNCHANGED <<inputVars, outVars, setupVars, muonVars, storeVars>>

\* CHECK( event.retrieve(evtInfo, "EventInfo") ); Info(progress line)
RetrieveInfo ==
  /\ pc = "retrieveInfo"
  /\ \E ok \in BOOLEAN :
       /\ FwCall("retrieveInfo", ok)
       /\ CHECK(ok, "retrieveInfo", "retrieveMuons")
       /\ progress' = IF ok THEN Append(progress, entry) ELSE progress
  /\ retrieveCalls' = retrieveCalls + 1
  /\ UNCHANGED <<nEntries, entry, processed>>
  /\ UNCHANGED <<usagePrinted, finishedPrinted, comparison>>
  /\ UNCHANGED <<inputVars, setupVars, muonVars, storeVars>>

\* CHECK( event.retrieve(muons, "Muons") ); Info(number of muons)
RetrieveMuons ==
  /\ pc = "retrieveMuons"
  /\ \E ok \in BOOLEAN :
       /\ FwCall("retrieveMuons", ok)
       /\ CHECK(ok, "retrieveMuons", "copy")
       /\ IF ok
          THEN \E n \in 0..MaxMuons :
                 cont' = [cont EXCEPT !.orig = [i \in 1..n |-> PtOf(i)]]
          ELSE UNCHANGED cont
  /\ retrieveCalls' = retrieveCalls + 1
  /\ UNCHANGED <<nEntries, entry, processed, j, toolLog, copies>>
  /\ UNCHANGED <<inputVars, outVars, setupVars, storeVars>>

\* muonCopyPair = xAOD::shallowCopyContainer(*muons); myMuons = muonCopyPair.first
ShallowCopy ==
  /\ pc = "copy"
  /\ FwCall("shallowCopyContainer", TRUE)
  /\ cont' = [cont EXCEPT !.copy = cont.orig]
  /\ held' = [first |-> "alloc", second |-> "alloc"]
  /\ copies' = copies + 1
  /\ j' = 1
  /\ toolLog' = <<>>
  /\ pc' = "muonLoop"
  /\ UNCHANGED <<status, diag, store, recordCalls, clearCalls>>
  /\ UNCHANGED <<inputVars, outVars, setupVars, loopVars>>

\* for(auto muon : *myMuons):
\*   CHECK( muonCalibTool.applyCorrection(*muon) != CP::CorrectionCode::Error );
ApplyCorrection ==
  /\ pc = "muonLoop"
  /\ j <= Len(cont[LoopContainer])
  /\ \E code \in CorrectionCodes :
       /\ FwCall("applyCorrection", code # "Error")
       /\ CHECK(code # "Error", "applyCorrection", "accept")
       /\ cont' = [cont EXCEPT ![LoopContainer][j] = Calibrated(@, code)]
       /\ toolLog' = Append(toolLog, <<"applyCorrection", j, code>>)
  /\ UNCHANGED <<j, copies>>
  /\ UNCHANGED <<inputVars, outVars, setupVars, loopVars, storeVars>>

\*   if(muonSelectTool.accept(*muon)) ... else the next muon
Accept ==
  /\ pc = "accept"
  /\ FwCall("accept", TRUE)
  /\ \E acc \in BOOLEAN :
       /\ toolLog' = Append(toolLog, <<"accept", j, acc>>)
       /\ IF AfterAccept(acc) = "eff"
          THEN pc' = "eff" /\ j' = j
          ELSE pc' = "muonLoop" /\ j' = j + 1
  /\ UNCHANGED <<status, diag, cont, copies>>
  /\ UNCHANGED <<inputVars, outVars, setupVars, loopVars, storeVars>>

\*   float w = 1;
\*   CHECK( muonEffTool.getEfficiencyScaleFactor(*muon, w) != CP::CorrectionCode::Error );
\*   Info("Muon selected with weight"); then the next muon
GetEfficiencyScaleFactor ==
  /\ pc = "eff"
  /\ \E code \in CorrectionCodes :
       /\ FwCall("getEfficiencyScaleFactor", code # "Error")
       /\ CHECK(code # "Error", "getEfficiencyScaleFactor", "muonLoop")
       /\ toolLog' = Append(toolLog, <<"getEfficiencyScaleFactor", j, code>>)
       /\ j' = IF code # "Error" THEN j + 1 ELSE j
  /\ UNCHANGED <<cont, copies>>
  /\ UNCHANGED <<inputVars, outVars, setupVars, loopVars, storeVars>>

\* the muon loop is over;
\* for(i < muons->size()) Info("Muon old pt, new pt", (*muons)[i]->pt()*0.001,
\*                              (*myMuons)[i]->pt()*0.001)
ComparePt ==
  /\ pc = "muonLoop"
  /\ ~(j <= Len(cont[LoopContainer]))
  /\ comparison' = [i \in 1..Len(cont.orig) |->
                      [old |-> Printed(cont.orig[i]), new |-> Printed(cont.copy[i])]]
  /\ pc' = "record1"
  /\ UNCHANGED <<status, diag, reported, calledAfterFailure>>
  /\ UNCHANGED <<usagePrinted, finishedPrinted, progress>>
  /\ UNCHANGED <<inputVars, setupVars, loopVars, muonVars, storeVars>>

\* xAOD::TStore::record: fails when the key is taken; on success the store
\* owns the object, on failure the object stays with the caller
Record(at, obj, key, next) ==
  /\ pc = at
  /\ \E ok \in (IF key \in store THEN {FALSE} ELSE BOOLEAN) :
       /\ FwCall(key, ok)
       /\ CHECK(ok, key, next)
       /\ store' = IF ok THEN store \cup {key} ELSE store
       /\ held' = IF ok THEN [held EXCEPT ![obj] = "owned"] ELSE held
  /\ recordCalls' = recordCalls + 1
  /\ UNCHANGED clearCalls
  /\ UNCHANGED <<inputVars, outVars, setupVars, loopVars, muonVars>>

\* CHECK( store.record(muonCopyPair.first, "MyMuons") );
Record1 == Record("record1", "first", "MyMuons", "record2")

\* CHECK( store.record(muonCopyPair.second, "MyMuonsAux.") );
Record2 == Record("record2", "second", "MyMuonsAux.", AfterRecord2)

KeyOf(obj) == IF obj = "first" THEN "MyMuons" ELSE "MyMuonsAux."

\* store.clear(): the store deletes the objects it owns
Clear ==
  /\ pc = "clear"
  /\ FwCall("clear", TRUE)
  /\ store' = StoreClear(store)
  /\ held' = [o \in DOMAIN held |->
                IF held[o] = "owned" /\ KeyOf(o) \notin store'
                THEN "released" ELSE held[o]]
  /\ clearCalls' = clearCalls + 1
  /\ pc' = "loopNext"
  /\ UNCHANGED <<status, diag, recordCalls>>
  /\ UNCHANGED <<inputVars, outVars, setupVars, loopVars, muonVars>>

\* end of the loop body: its locals go out of scope; ++entry
LoopNext ==
  /\ pc = "loopNext"
  /\ entry' = entry + 1
  /\ cont' = NoCopy
  /\ j' = 1
  /\ toolLog' = <<>>
  /\ comparison' = <<>>
  /\ pc' = "loopTest"
  /\ UNCHANGED <<status, diag, reported, calledAfterFailure>>
  /\ UNCHANGED <<usagePrinted, finishedPrinted, progress>>
  /\ UNCHANGED <<nEntries, processed, retrieveCalls, copies>>
  /\ UNCHANGED <<inputVars, setupVars, storeVars>>

Next ==
  \/ CheckArgs
  \/ XAODInit
  \/ OpenFile
  \/ ReadFrom
  \/ CalibInit
  \/ SelectSetProperty
  \/ SelectInit
  \/ EffSetProperty
  \/ EffInit
  \/ LoopInit
  \/ LoopTest
  \/ Finish
  \/ GetEntry
  \/ RetrieveInfo
  \/ RetrieveMuons
  \/ ShallowCopy
  \/ ApplyCorrection
  \/ Accept
  \/ GetEfficiencyScaleFactor
  \/ ComparePt
  \/ Record1
  \/ Record2
  \/ Clear
  \/ LoopNext

Spec == Init /\ [][Next]_vars

TypeOK ==
  /\ status \in {-1, 0, 1}
  /\ entry \in 0..EventCap
  /\ store \subseteq {"MyMuons", "MyMuonsAux."}

\* ------------------------------------------------------------------------
\* Properties
\* ------------------------------------------------------------------------

Retrievals == {"retrieveInfo", "retrieveMuons"}

\* the counters 0, 1, ..., n-1
Counters(n) == [i \in 1..n |-> i - 1]

\* C1 (as stated): when a per-event retrieval, whichever it is, reports
\* failure on iteration k = entry + 1, main returns 1 at once with exactly
\* k - 1 progress lines printed.
C1_AnyRetrievalOriginal ==
  reported \in Retrievals =>
    /\ pc = "done"
    /\ status = 1
    /\ Len(progress) = entry

\* C1 (amended): a failing EventInfo retrieval on iteration k = entry + 1
\* returns 1 at once after k - 1 progress lines; a failing Muons retrieval on
\* iteration k returns 1 at once after k progress lines, the line of
\* iteration k having been printed before the muons are retrieved.
C1_RetrievalFailure ==
  reported \in Retrievals =>
    /\ pc = "done"
    /\ status = 1
    /\ diag = reported
    /\ progress = Counters(Len(progress))
    /\ Len(progress) = IF reported = "retrieveInfo" THEN entry ELSE entry + 1

C1_Witness ==
  /\ pc = "done"
  /\ reported = "retrieveMuons"
  /\ entry = 2
  /\ Len(progress) = 3

\* C2: whenever a framework call reports failure, main makes no further
\* framework call, prints the failure diagnostic and returns 1.
C2_FailFast ==
  reported # "none" =>
    /\ pc = "done"
    /\ status = 1
    /\ diag # "none"
    /\ ~calledAfterFailure

\* C3: the loop hands the entries 0, 1, ... to getEntry in increasing order
\* and never more than min(N, 20) of them; a run that returns 0 has processed
\* exactly min(N, 20) entries, printed one progress line per entry with the
\* last counter min(N, 20) - 1, and printed the completion message; a run
\* without any reported failure returns 0 (also for N = 0).
C3_LoopBound ==
  /\ Len(processed) <= Min(nEvents, EventCap)
  /\ processed = Counters(Len(processed))
  /\ (pc = "done" /\ status = 0) =>
       /\ Len(processed) = Min(nEvents, EventCap)
       /\ progress = processed
       /\ finishedPrinted
  /\ (pc = "done" /\ reported = "none" /\ ~ArgsMissing(argc)) => status = 0

C3_Witness ==
  /\ pc = "done"
  /\ status = 0
  /\ reported = "none"
  /\ nEvents > EventCap
  /\ Len(progress) = EventCap
  /\ progress[EventCap] = EventCap - 1

ToolSetupCalls ==
  {"calib.initialize", "select.setProperty", "select.initialize",
   "eff.setProperty", "eff.initialize"}

\* the initialize calls made when the given set-up call is the one that fails
InitCallsUpTo(name) ==
  CASE name = "calib.initialize" -> <<"calib">>
    [] name = "select.setProperty" -> <<"calib">>
    [] name = "select.initialize" -> <<"calib", "select">>
    [] name = "eff.setProperty" -> <<"calib", "select">>
    [] name = "eff.initialize" -> <<"calib", "select", "eff">>

\* C4: when a tool's initialize or setProperty reports failure, main returns
\* 1 before the event loop: no getEntry, retrieve, shallow copy, record or
\* clear is ever made, and no later tool is initialized.
C4_ToolSetupFailure ==
  reported \in ToolSetupCalls =>
    /\ pc = "done"
    /\ status = 1
    /\ processed = <<>>
    /\ retrieveCalls = 0
    /\ copies = 0
    /\ recordCalls = 0
    /\ clearCalls = 0
    /\ initCalls = InitCallsUpTo(reported)

C4_Witness ==
  /\ pc = "done"
  /\ reported = "select.initialize"
  /\ initCalls = <<"calib", "select">>

\* C5: started without a file name (argc < 2), main prints the usage message
\* and returns 1 without initialising the framework or touching a file.
C5_Usage ==
  argc < 2 =>
    /\ pc \in {"start", "done"}
    /\ ~xaodInit /\ ~fileOpened /\ ~eventBound
    /\ processed = <<>> /\ retrieveCalls = 0
    /\ pc = "done" => (usagePrinted /\ status = 1 /\ ~finishedPrinted)

C5_Witness ==
  /\ argc < 2
  /\ pc = "done"
  /\ usagePrinted

\* C6: store.clear() is called once per completed iteration, as its last
\* step and after both record calls; an aborted iteration makes no clear.
C6_ClearPerIteration ==
  /\ clearCalls = IF pc = "loopNext" THEN entry + 1 ELSE entry
  /\ pc = "loopNext" => (recordCalls = 2 * clearCalls /\ store = {})
  /\ pc = "clear" => recordCalls = 2 * (clearCalls + 1)
  /\ (pc = "done" /\ status = 1) => clearCalls = entry

C6_Witness ==
  /\ pc = "done"
  /\ status = 1
  /\ reported = "MyMuonsAux."
  /\ entry = 2
  /\ clearCalls = 2

\* the log positions of applyCorrection on element i
AppliedAt(i) ==
  {p \in 1..Len(toolLog) : toolLog[p][1] = "applyCorrection" /\ toolLog[p][2] = i}

\* the pt element i of the copy must have, given the corrections logged
ExpectedPt(i) ==
  IF AppliedAt(i) = {} THEN PtOf(i)
  ELSE Calibrated(PtOf(i), toolLog[CHOOSE p \in AppliedAt(i) : TRUE][3])

\* C7: the calibration changes the elements of the shallow copy only; the
\* original collection keeps the retrieved values during the whole
\* iteration, and the comparison prints the original value as old and the
\* calibrated value as new, for every element.
C7_CopyIsolation ==
  /\ cont.orig = [i \in 1..Len(cont.orig) |-> PtOf(i)]
  /\ \A i \in 1..Len(cont.copy) : cont.copy[i] = ExpectedPt(i)
  /\ comparison # <<>> =>
       /\ Len(comparison) = Len(cont.orig)
       /\ \A i \in 1..Len(comparison) :
            /\ comparison[i].old = Printed(PtOf(i))
            /\ comparison[i].new = Printed(ExpectedPt(i))

C7_Witness ==
  /\ pc = "record1"
  /\ Len(comparison) = MaxMuons
  /\ comparison[1].new # comparison[1].old
  /\ cont.copy[1] # cont.orig[1]

IsCode(e) == e[1] \in {"applyCorrection", "getEfficiencyScaleFactor"}
IsError(e) == IsCode(e) /\ e[3] = "Error"
AcceptedAs(e, i, b) == e[1] = "accept" /\ e[2] = i /\ e[3] = b

\* C8: per element the tools run as applyCorrection, then accept (only after
\* a non-Error correction), then getEfficiencyScaleFactor exactly when accept
\* returned true; elements are taken in collection order and an Error ends
\* the tool calls.
C8_ToolOrder ==
  /\ \A p \in 1..Len(toolLog) :
       LET e == toolLog[p] IN
       /\ e[2] \in 1..Len(cont.copy)
       /\ e[1] = "applyCorrection" =>
            \/ p = 1 /\ e[2] = 1
            \/ /\ p > 1
               /\ e[2] = toolLog[p-1][2] + 1
               /\ \/ AcceptedAs(toolLog[p-1], e[2] - 1, FALSE)
                  \/ /\ toolLog[p-1][1] = "getEfficiencyScaleFactor"
                     /\ ~IsError(toolLog[p-1])
       /\ e[1] = "accept" =>
            /\ p > 1
            /\ toolLog[p-1][1] = "applyCorrection"
            /\ toolLog[p-1][2] = e[2]
            /\ ~IsError(toolLog[p-1])
       /\ e[1] = "getEfficiencyScaleFactor" =>
            /\ p > 1
            /\ AcceptedAs(toolLog[p-1], e[2], TRUE)
       /\ (AcceptedAs(e, e[2], TRUE) /\ p = Len(toolLog)) => pc = "eff"
       /\ (e[1] = "applyCorrection" /\ ~IsError(e) /\ p = Len(toolLog)) => pc = "accept"
       /\ IsError(e) => (p = Len(toolLog) /\ pc = "done" /\ status = 1)
  /\ pc \in {"record1", "record2", "clear", "loopNext"} =>
       \A i \in 1..Len(cont.copy) : AppliedAt(i) # {}

C8_Witness ==
  /\ pc = "done"
  /\ Len(toolLog) = 5
  /\ AcceptedAs(toolLog[2], 1, FALSE)
  /\ AcceptedAs(toolLog[4], 2, TRUE)
  /\ toolLog[5][1] = "getEfficiencyScaleFactor"
  /\ IsError(toolLog[5])

\* C9: the store is empty at the start of every iteration, a record never
\* meets its key already in the store, and the store never holds anything
\* but the two entries MyMuons and MyMuonsAux.
C9_StoreEmptyAtIterationStart ==
  /\ pc \in {"loopTest", "getEntry"} => store = {}
  /\ pc = "record1" => "MyMuons" \notin store
  /\ pc = "record2" => "MyMuonsAux." \notin store
  /\ store \subseteq {"MyMuons", "MyMuonsAux."}
  /\ Cardinality(store) <= 2

C9_Witness ==
  /\ pc = "record1"
  /\ entry = 1
  /\ clearCalls = 1
  /\ store = {}

\* C10: when main has returned, each object of every shallow copy pair is
\* owned by the store or was released by a clear.
C10_NoLeak ==
  pc = "done" => \A o \in DOMAIN held : held[o] \in {"none", "owned", "released"}

====
